---- MODULE Spec2Model ----
(***************************************************************************)
(* Windows plugin shim of bloc_infinity_list.                               *)
(*                                                                         *)
(* The host loader calls BlocInfinityListPluginCApiRegisterWithRegistrar   *)
(* with a registrar reference; the shim creates a channel with a fixed     *)
(* name on that registrar, one BlocInfinityListPlugin instance, installs   *)
(* the channel's method-call handler and hands the instance over to the    *)
(* registrar.  Afterwards the platform thread delivers the application     *)
(* layer's method calls one at a time to HandleMethodCall.                  *)
(***************************************************************************)
EXTENDS Naturals, Sequences, FiniteSets

\* ---------------------------------------------------------------- bounds
MaxCalls == 3          \* method calls the application layer sends
MaxRegistrations == 2  \* calls of the registration entry point

\* ------------------------------------------------------------- constants
kChannelName == "bloc_infinity_list"

Registrars == {"r1", "r2"}
Methods == {"ping", "doesNotExist"}
NoInstance == 0
NoCall == 0

\* ------------------------------------------------------------------ state
VARIABLES
  alive,        \* [Registrars -> BOOLEAN]: the host's registrar still exists
  registrars_,  \* registrar references the registrar manager holds a wrapper for
  instances,    \* sequence of plugin instances ever constructed: [reg, live]
  plugins,      \* [Registrars -> SUBSET instance ids]: instances the registrar owns
  channels,     \* [Registrars -> set of [name, owner]]: channels created on its messenger
  handlers,     \* [Registrars -> set of <<name, instance>>]: installed method-call handlers
  hostLog,      \* sequence of registrar references the host passed to the entry point
  calls,        \* sequence of method calls the application layer has sent
  queue,        \* ids of calls waiting on the platform thread, in arrival order
  running,      \* id of the call whose handler is executing, or NoCall
  forwarded,    \* ids of the calls handed to HandleMethodCall, in that order
  crashed       \* the process has crashed

vars == <<alive, registrars_, instances, plugins, channels, handlers, hostLog,
          calls, queue, running, forwarded, crashed>>

\* --------------------------------------------------------- result sink
\* flutter::MethodResult: a completion object; each terminal operation
\* (success, error, not implemented) counts, and the first one decides the
\* outcome the caller sees.
NewResult == [count |-> 0, outcome |-> "none"]

NotImplemented(result) ==
  [result EXCEPT !.count = @ + 1,
                 !.outcome = IF result.count = 0 THEN "notimpl" ELSE @]

\* ------------------------------------------------------------- helpers
HandlerOf(r, name) ==
  IF \E h \in handlers[r] : h[1] = name
  THEN (CHOOSE h \in handlers[r] : h[1] = name)[2]
  ELSE NoInstance

InstanceIds == 1..Len(instances)
CallIds == 1..Len(calls)

Init ==
  /\ alive = [r \in Registrars |-> TRUE]
  /\ registrars_ = {}
  /\ instances = <<>>
  /\ plugins = [r \in Registrars |-> {}]
  /\ channels = [r \in Registrars |-> {}]
  /\ handlers = [r \in Registrars |-> {}]
  /\ hostLog = <<>>
  /\ calls = <<>>
  /\ queue = <<>>
  /\ running = NoCall
  /\ forwarded = <<>>
  /\ crashed = FALSE

\* ------------------------------------------------------------ the shim
\* BlocInfinityListPlugin::RegisterWithRegistrar: one channel bound to the
\* fixed name, one instance, the channel's handler forwarding to that
\* instance, and the instance handed over to the registrar.
RegisterWithRegistrar(registrar) ==
  LET plugin == Len(instances) + 1 IN
  /\ instances' = Append(instances, [reg |-> registrar, live |-> TRUE])
  /\ channels' = [channels EXCEPT ![registrar] =
                    @ \cup {[name |-> kChannelName, owner |-> plugin]}]
  /\ handlers' = [handlers EXCEPT ![registrar] =
                    {h \in @ : h[1] # kChannelName} \cup {<<kChannelName, plugin>>}]
  /\ plugins' = [plugins EXCEPT ![registrar] = @ \cup {plugin}]

\* The entry point with a registrar cached from an earlier call: the plugin
\* is registered on "r1" whenever that registrar exists.
CApiRegisterWithCachedRegistrar(registrar) ==
  /\ ~crashed
  /\ running = NoCall
  /\ IF alive[registrar]
     THEN /\ Len(hostLog) < MaxRegistrations
          /\ hostLog' = Append(hostLog, registrar)
          /\ LET cached == IF alive["r1"] THEN "r1" ELSE registrar
             IN /\ registrars_' = registrars_ \cup {cached}
                /\ RegisterWithRegistrar(cached)
          /\ UNCHANGED crashed
     ELSE /\ crashed' \in BOOLEAN
          /\ UNCHANGED <<hostLog, registrars_, instances, channels, handlers, plugins>>
  /\ UNCHANGED <<alive, calls, queue, running, forwarded>>

\* The entry point looking the registrar up without registering the plugin.
CApiWithoutRegistration(registrar) ==
  /\ ~crashed
  /\ running = NoCall
  /\ IF alive[registrar]
     THEN /\ Len(hostLog) < MaxRegistrations
          /\ hostLog' = Append(hostLog, registrar)
          /\ registrars_' = registrars_ \cup {registrar}
          /\ UNCHANGED <<instances, channels, handlers, plugins>>
          /\ UNCHANGED crashed
     ELSE /\ crashed' \in BOOLEAN
          /\ UNCHANGED <<hostLog, registrars_, instances, channels, handlers, plugins>>
  /\ UNCHANGED <<alive, calls, queue, running, forwarded>>

\* The registration entry point.  A reference to a registrar that no longer
\* exists is dangling: the behaviour is undefined, modelled as either a crash
\* or a return without effect.
BlocInfinityListPluginCApiRegisterWithRegistrar(registrar) ==
  /\ ~crashed
  /\ running = NoCall
  /\ IF alive[registrar]
     THEN /\ Len(hostLog) < MaxRegistrations
          /\ hostLog' = Append(hostLog, registrar)
          /\ registrars_' = registrars_ \cup {registrar}
          /\ RegisterWithRegistrar(registrar)
          /\ UNCHANGED crashed
     ELSE /\ crashed' \in BOOLEAN
          /\ UNCHANGED <<hostLog, registrars_, instances, channels, handlers, plugins>>
  /\ UNCHANGED <<alive, calls, queue, running, forwarded>>

\* A handler that answers every call with "not implemented".
HandleMethodCallNotImplemented(method_call, result) == NotImplemented(result)

\* BlocInfinityListPlugin::HandleMethodCall: the handler's effect on the
\* result sink it is given.  The body is empty: the sink is left untouched.
HandleMethodCall(method_call, result) == result

\* ----------------------------------------------------- the environment
\* The application layer invokes a method on the plugin's channel.
InvokeMethod(r, m) ==
  /\ ~crashed
  /\ alive[r]
  /\ Len(calls) < MaxCalls
  /\ calls' = Append(calls, [reg |-> r, method |-> m, state |-> "queued",
                             inst |-> NoInstance, result |-> NewResult,
                             regd |-> \E i \in 1..Len(hostLog) : hostLog[i] = r])
  /\ queue' = Append(queue, Len(calls) + 1)
  /\ UNCHANGED <<alive, registrars_, instances, plugins, channels, handlers,
                 hostLog, running, forwarded, crashed>>

\* The platform thread takes the oldest waiting call and enters the handler
\* installed for the channel; a call for which no handler is installed is
\* answered by the framework and never reaches the plugin.
DispatchMessage ==
  /\ ~crashed
  /\ running = NoCall
  /\ queue # <<>>
  /\ LET c == Head(queue)
         plugin_pointer == HandlerOf(calls[c].reg, kChannelName)
     IN IF plugin_pointer # NoInstance
        THEN /\ calls' = [calls EXCEPT ![c].state = "handling",
                                       ![c].inst = plugin_pointer]
             /\ running' = c
             /\ forwarded' = Append(forwarded, c)
        ELSE /\ calls' = [calls EXCEPT ![c].state = "noHandler"]
             /\ UNCHANGED <<running, forwarded>>
  /\ queue' = Tail(queue)
  /\ UNCHANGED <<alive, registrars_, instances, plugins, channels, handlers,
                 hostLog, crashed>>

\* The handler runs to its end and returns; the sink it was given goes out
\* of scope with it.
RunHandler ==
  /\ ~crashed
  /\ running # NoCall
  /\ calls' = [calls EXCEPT
                 ![running].result = HandleMethodCall(calls[running].method, @),
                 ![running].state = "returned"]
  /\ running' = NoCall
  /\ UNCHANGED <<alive, registrars_, instances, plugins, channels, handlers,
                 hostLog, queue, forwarded, crashed>>

RECURSIVE SelectNot(_, _)
SelectNot(q, drop) ==
  IF q = <<>> THEN <<>>
  ELSE IF Head(q) \in drop THEN SelectNot(Tail(q), drop)
       ELSE <<Head(q)>> \o SelectNot(Tail(q), drop)

\* The host destroys a registrar: the registrar manager drops its wrapper,
\* which destroys the plugins it owns together with their channels; calls
\* still waiting for that registrar are dropped.
DestroyRegistrar(r) ==
  /\ ~crashed
  /\ running = NoCall
  /\ alive[r]
  /\ alive' = [alive EXCEPT ![r] = FALSE]
  /\ registrars_' = registrars_ \ {r}
  /\ instances' = [i \in 1..Len(instances) |->
                     IF i \in plugins[r] THEN [instances[i] EXCEPT !.live = FALSE]
                     ELSE instances[i]]
  /\ channels' = [channels EXCEPT ![r] = {ch \in @ : ch.owner \notin plugins[r]}]
  /\ handlers' = [handlers EXCEPT ![r] = {}]
  /\ plugins' = [plugins EXCEPT ![r] = {}]
  /\ LET waiting == {c \in 1..Len(calls) : calls[c].reg = r /\ calls[c].state = "queued"}
     IN /\ queue' = SelectNot(queue, waiting)
        /\ calls' = [c \in 1..Len(calls) |->
                       IF c \in waiting THEN [calls[c] EXCEPT !.state = "dropped"]
                       ELSE calls[c]]
  /\ UNCHANGED <<hostLog, running, forwarded, crashed>>

Next ==
  \/ \E r \in Registrars : BlocInfinityListPluginCApiRegisterWithRegistrar(r)
  \/ \E r \in Registrars, m \in Methods : InvokeMethod(r, m)
  \/ DispatchMessage
  \/ RunHandler
  \/ \E r \in Registrars : DestroyRegistrar(r)

Spec == Init /\ [][Next]_vars

\* ---------------------------------------------------------- properties
HostCalls(r) == Cardinality({i \in 1..Len(hostLog) : hostLog[i] = r})
Forwarded(c) == calls[c].state \in {"handling", "returned"}

\* C1: every call delivered to HandleMethodCall has exactly one terminal
\* operation invoked on its result sink: never more than one, and one by the
\* time the handler has returned and released the sink.
C1_ExactlyOneTerminalOperation ==
  \A c \in CallIds :
    /\ calls[c].result.count <= 1
    /\ calls[c].state = "returned" => calls[c].result.count = 1

\* C2: every registration call with a valid registrar creates exactly one
\* channel, bound to the fixed name, on that registrar and registers exactly
\* one plugin instance with it, and touches no other registrar.
C2_RegistrationCreatesOneChannelOneInstance ==
  [][Len(hostLog') = Len(hostLog) + 1 =>
       LET r == hostLog'[Len(hostLog')] IN
       /\ channels[r] \subseteq channels'[r]
       /\ Cardinality(channels'[r] \ channels[r]) = 1
       /\ \A ch \in channels'[r] \ channels[r] : ch.name = kChannelName
       /\ plugins[r] \subseteq plugins'[r]
       /\ Cardinality(plugins'[r] \ plugins[r]) = 1
       /\ Len(instances') = Len(instances) + 1
       /\ \A q \in Registrars \ {r} :
            channels'[q] = channels[q] /\ plugins'[q] = plugins[q]]_vars

C2_Witness ==
  /\ Len(hostLog) = 1
  /\ Cardinality(plugins[hostLog[1]]) = 1
  /\ channels[hostLog[1]] = {[name |-> kChannelName, owner |-> 1]}

\* C3: a call of the unknown method "doesNotExist" that the handler has
\* dealt with was answered with "not implemented"; it is not left unanswered.
C3_UnknownMethodNotImplemented ==
  \A c \in CallIds :
    (calls[c].state = "returned" /\ calls[c].method = "doesNotExist")
      => calls[c].result.outcome = "notimpl"

\* C4: a call of "ping" sent after the host registered the plugin, once the
\* handler has dealt with it, was answered with a success reply.
C4_PingSucceeds ==
  \A c \in CallIds :
    (calls[c].regd /\ calls[c].state = "returned" /\ calls[c].method = "ping")
      => calls[c].result.outcome = "success"

\* C7 (as stated): at most one plugin instance is registered per registrar
\* however often the entry point is called, and every channel carries the
\* fixed name.
C7_AtMostOneInstancePerRegistrar ==
  \A r \in Registrars :
    /\ Cardinality(plugins[r]) <= 1
    /\ \A ch \in channels[r] : ch.name = kChannelName

\* C7 (amended): a live registrar holds exactly as many plugin instances as
\* the entry point was called with its reference, a destroyed one none, and
\* every channel carries the fixed name.
C7_OneInstancePerRegistrationCall ==
  \A r \in Registrars :
    /\ Cardinality(plugins[r]) = IF alive[r] THEN HostCalls(r) ELSE 0
    /\ \A ch \in channels[r] : ch.name = kChannelName

C7_Witness ==
  \E r \in Registrars : HostCalls(r) = 2 /\ Cardinality(plugins[r]) = 2

\* C8: the handler never invokes a terminal operation on a result sink, so
\* every call it was given stays unanswered, and running it changes nothing
\* but the call's position.
C8_HandlerNeverResolves ==
  /\ [](\A c \in CallIds :
          calls[c].result.count = 0 /\ calls[c].result.outcome = "none")
  /\ [][running # NoCall /\ running' = NoCall =>
          /\ calls'[running].result = calls[running].result
          /\ UNCHANGED <<alive, registrars_, instances, plugins, channels,
                         handlers, queue>>]_vars

C8_Witness ==
  \E c \in CallIds : calls[c].state = "returned" /\ calls[c].result.count = 0

\* C9: the calls handed to the handler are handed over once each and in
\* arrival order, by the handler installed on the call's own registrar; at
\* most one invocation executes at a time; no call is handed over for a
\* registrar the host has not registered the plugin with; and a call that
\* arrived after registration is not left out when its turn comes.
C9_SerialInOrderDispatch ==
  /\ \A i, j \in 1..Len(forwarded) : i < j => forwarded[i] < forwarded[j]
  /\ {forwarded[i] : i \in 1..Len(forwarded)} = {c \in CallIds : Forwarded(c)}
  /\ {c \in CallIds : calls[c].state = "handling"} =
       IF running = NoCall THEN {} ELSE {running}
  /\ \A c \in CallIds :
       /\ Forwarded(c) =>
            /\ HostCalls(calls[c].reg) >= 1
            /\ calls[c].inst \in InstanceIds
            /\ instances[calls[c].inst].reg = calls[c].reg
       /\ calls[c].state = "queued" =>
            \E k \in 1..Len(queue) : queue[k] = c
       /\ calls[c].regd => calls[c].state # "noHandler"

C9_Witness ==
  /\ Len(forwarded) = 2
  /\ running # NoCall
  /\ queue # <<>>

\* C10: an instance belongs to the registrar the host passed when it was
\* registered and to no other; while that registrar lives the instance and
\* its channel live; an instance is destroyed only with its registrar; and
\* the instance a handler invocation runs on is alive.
C10_OwnedByRegistrar ==
  /\ Len(instances) = Len(hostLog)
  /\ \A i \in InstanceIds :
       LET r == instances[i].reg IN
       /\ r = hostLog[i]
       /\ \A q \in Registrars : i \in plugins[q] => q = r
       /\ alive[r] =>
            /\ instances[i].live
            /\ i \in plugins[r]
            /\ [name |-> kChannelName, owner |-> i] \in channels[r]
       /\ ~instances[i].live => ~alive[r]
       /\ instances[i].live <=> i \in plugins[r]
  /\ \A c \in CallIds :
       calls[c].state = "handling" => instances[calls[c].inst].live

C10_Witness ==
  /\ \E i \in InstanceIds : ~instances[i].live
  /\ \E c \in CallIds : calls[c].state = "handling"
  /\ \E c \in CallIds : calls[c].state = "returned" /\ ~instances[calls[c].inst].live

====
